---------------------------- MODULE Spec2Model ----------------------------
(***************************************************************************)
(* local-copr: the rebuild planner (lc-rebuild.py, class Planner) and the  *)
(* chain executor (lc.py, chain / single_build), as state machines.        *)
(*                                                                         *)
(* Planner: _scan_local_registry walks forges/ and fills                   *)
(* local_provides_map; generate_plan builds dep_graph through              *)
(* resolve_provider, seeds the queue from the triggers, runs the           *)
(* breadth-first traversal and writes the sorted task array.               *)
(* Chain executor: chain loads the task array and calls single_build on    *)
(* each task in turn; single_build runs the external commands through      *)
(* run_cmd, which ends the process on a failing command.                   *)
(***************************************************************************)
EXTENDS Integers, Sequences, FiniteSets, TLC

(***************************************************************************)
(* The universe of names.                                                  *)
(***************************************************************************)
\* the sub-directories of forges/: the managed package ids
Pkgs == {"a", "b", "c"}
\* a trigger id that names no directory of forges/
Ghost == "ghost"
\* an RPM of an external repository that is no managed package
ExtPkg == "ext"
\* a virtual capability, and two bookkeeping tokens of rpm
VirtualCap == "x"
RpmlibTokens == {"rpmlib(f)"}
ConfigTokens == {"config(x)"}
Tokens == Pkgs \cup {VirtualCap} \cup RpmlibTokens \cup ConfigTokens
\* Python's None, and the two unsuccessful answers of a libdnf5 query
None == "None"
NotFound == "NotFound"
ResolverError == "ResolverError"
\* the three rpmspec queries made on a spec file
QNames == "names"
QProvides == "provides"
QBuildRequires == "buildrequires"

(***************************************************************************)
(* Bounds.                                                                 *)
(***************************************************************************)
\* the longest --trigger list
MaxTriggers == 2
\* the longest task array handed to the chain executor
MaxTasks == 3
\* the most KeyboardInterrupts a run catches and goes on after
MaxSwallowed == 1

(***************************************************************************)
(* Helpers: Python dicts as functions, ordered dicts as sequences.         *)
(***************************************************************************)
\* d[k] = v
Put(d, k, v) == [x \in (DOMAIN d) \cup {k} |-> IF x = k THEN v ELSE d[x]]
\* the empty dict
EmptyDict == [x \in {} |-> None]
\* every ordering of the finite set S (an iteration order of a Python set)
Orders(S) ==
    {s \in [1..Cardinality(S) -> S] : \A i, j \in 1..Cardinality(S) : (s[i] = s[j]) => (i = j)}
\* the sequences over S of length lo..hi
SeqsBetween(S, lo, hi) == UNION {[1..n -> S] : n \in lo..hi}
\* the elements of a sequence
Range(s) == {s[i] : i \in 1..Len(s)}
\* Python's order on the str values the model uses ("a" < "b" < "c" < "ghost")
StrRank == [s \in Pkgs \cup {Ghost} |->
              CASE s = "a" -> 1 [] s = "b" -> 2 [] s = "c" -> 3 [] OTHER -> 4]
StrLess(s, t) == StrRank[s] < StrRank[t]

VARIABLES
    \* ---- the planner's inputs: the source tree and the binary repositories
    forges_exists,       \* os.path.exists(self.forges_dir)
    forges,              \* per package directory: its spec file and what rpmspec says of it
    binary_repo,         \* per capability: the answer of the libdnf5 provides query
    \* ---- the planner (one Planner object, one generate_plan call)
    pc,                  \* where the planner is
    scanned,             \* the directories _scan_local_registry has visited
    local_provides_map,  \* self.local_provides_map
    cap_cache,           \* self.cap_cache
    ext_queries,         \* per capability: the libdnf5 queries made so far
    graphed,             \* the consumers generate_plan has gone through
    dep_graph,           \* dep_graph: provider -> set of consumers
    trigger_ids,         \* the --trigger list
    affected,            \* affected, an insertion-ordered dict: a sequence of (package, level)
    queue,               \* the deque of (package, level)
    enqueued,            \* per package: how often it was appended to the queue
    plan_file,           \* the plan file: whether it was written, and its task array
    planner_exit,        \* <<>> while the planner runs, then <<exit status>>
    \* ---- the chain executor (one "lc build --chain" process)
    gpg_key_id,          \* whether .lc_config names a GPG key
    swallowed,           \* the tasks whose read of .lc_config caught a KeyboardInterrupt
    chain_pc,            \* where the process is
    tasks,               \* chain(): the loaded task array
    idx,                 \* chain(): the loop index, 0-based as in the code
    invoked,             \* the packages single_build was called for, in call order
    status,              \* per task: Pending, Running, Succeeded, Failed or Interrupted
    build_success,       \* single_build(): build_success, then its return value
    new_rpms,            \* single_build(): the artifacts it copied into the repository
    repo_rpms,           \* the RPM files in the shared repository
    repodata,            \* the RPM files the repository index (repodata/) covers
    printed,             \* the messages of chain() that name a package
    lc_exit              \* <<>> while the process runs, then <<exit status>>

inputVars == <<forges_exists, forges, binary_repo>>
scanVars == <<scanned, local_provides_map>>
graphVars == <<cap_cache, ext_queries, graphed, dep_graph>>
bfsVars == <<trigger_ids, affected, queue, enqueued>>
plannerVars == <<pc, scanVars, graphVars, bfsVars, planner_exit>>
chainVars == <<gpg_key_id, swallowed, chain_pc, tasks, idx, invoked, status, build_success,
               new_rpms, repo_rpms, repodata, printed, lc_exit>>
vars == <<inputVars, plannerVars, plan_file, chainVars>>

(***************************************************************************)
(* lc-rebuild.py: Planner._scan_local_registry                             *)
(***************************************************************************)
\* os.listdir(forges_dir) filtered by isdir: the managed package ids
managed_pkg_ids == IF forges_exists THEN Pkgs ELSE {}

\* _get_spec_path: the spec file of a package directory, or None
HasSpec(pkg_id) == forges[pkg_id].has_spec

\* a slip: the names registered first are kept
RegisterKeepFirst(map, caps, pkg_id) ==
    [x \in (DOMAIN map) \cup caps |-> IF x \in DOMAIN map THEN map[x] ELSE pkg_id]

\* the map after the lines of one rpmspec output are registered for pkg_id
Register(map, caps, pkg_id) ==
    [x \in (DOMAIN map) \cup caps |-> IF x \in caps THEN pkg_id ELSE map[x]]

\* one iteration of the scan loop: the map after pkg_id's directory was visited.
\* The names query comes first; a failing query raises CalledProcessError, which
\* leaves the try block with what was registered before it.
ScanOne(map, pkg_id) ==
    LET d == forges[pkg_id] IN
    IF ~d.has_spec THEN map
    ELSE IF QNames \in d.fails THEN map
    ELSE IF QProvides \in d.fails THEN Register(map, d.names, pkg_id)
    ELSE Register(Register(map, d.names, pkg_id), d.provides, pkg_id)

\* _scan_local_registry returns at once when forges/ does not exist
ScanMissing ==
    /\ pc = "scan"
    /\ ~forges_exists
    /\ pc' = "graph"
    /\ UNCHANGED <<inputVars, scanVars, graphVars, bfsVars, plan_file, planner_exit, chainVars>>

\* the scan loop visits the directories in the order os.listdir gives them
ScanPackage(pkg_id) ==
    /\ pc = "scan"
    /\ forges_exists
    /\ pkg_id \in managed_pkg_ids \ scanned
    /\ local_provides_map' = ScanOne(local_provides_map, pkg_id)
    /\ scanned' = scanned \cup {pkg_id}
    /\ pc' = IF scanned' = managed_pkg_ids THEN "graph" ELSE "scan"
    /\ UNCHANGED <<inputVars, graphVars, bfsVars, plan_file, planner_exit, chainVars>>

(***************************************************************************)
(* lc-rebuild.py: Planner.get_spec_build_requires, Planner.resolve_provider *)
(***************************************************************************)
\* the BuildRequires of a package; a failing rpmspec leaves the set empty
get_spec_build_requires(pkg_id) ==
    IF QBuildRequires \in forges[pkg_id].fails THEN {} ELSE forges[pkg_id].buildrequires

\* a slip: the config( prefix is not tested
IsReservedRpmlibOnly(req) == req \in RpmlibTokens

\* req.startswith("rpmlib(") or req.startswith("config(")
IsReserved(req) == req \in RpmlibTokens \/ req \in ConfigTokens

\* a slip: the binary repositories are asked before the local map is looked at
resolve_provider_external_first(cache, queries, capability) ==
    IF capability \in DOMAIN cache
    THEN [provider |-> cache[capability], cap_cache |-> cache, ext_queries |-> queries]
    ELSE LET answer == binary_repo[capability]
             asked == [queries EXCEPT ![capability] = @ + 1]
         IN  IF answer \notin {NotFound, ResolverError}
             THEN [provider |-> answer,
                   cap_cache |-> Put(cache, capability, answer),
                   ext_queries |-> asked]
             ELSE IF capability \in DOMAIN local_provides_map
             THEN [provider |-> local_provides_map[capability],
                   cap_cache |-> Put(cache, capability, local_provides_map[capability]),
                   ext_queries |-> asked]
             ELSE [provider |-> None, cap_cache |-> cache, ext_queries |-> asked]

\* a slip: the exception of the libdnf5 query is not caught apart from an answer
resolve_provider_error_as_answer(cache, queries, capability) ==
    IF capability \in DOMAIN cache
    THEN [provider |-> cache[capability], cap_cache |-> cache, ext_queries |-> queries]
    ELSE IF capability \in DOMAIN local_provides_map
    THEN [provider |-> local_provides_map[capability],
          cap_cache |-> Put(cache, capability, local_provides_map[capability]),
          ext_queries |-> queries]
    ELSE LET answer == binary_repo[capability]
             asked == [queries EXCEPT ![capability] = @ + 1]
         IN  IF answer = NotFound
             THEN [provider |-> None, cap_cache |-> cache, ext_queries |-> asked]
             ELSE [provider |-> answer,
                   cap_cache |-> Put(cache, capability, answer),
                   ext_queries |-> asked]

\* resolve_provider(capability) on the cache `cache`: the provider it returns, the
\* cache it leaves, and the query counters (one more when libdnf5 was asked)
resolve_provider(cache, queries, capability) ==
    IF capability \in DOMAIN cache
    THEN [provider |-> cache[capability], cap_cache |-> cache, ext_queries |-> queries]
    ELSE IF capability \in DOMAIN local_provides_map
    THEN [provider |-> local_provides_map[capability],
          cap_cache |-> Put(cache, capability, local_provides_map[capability]),
          ext_queries |-> queries]
    ELSE LET answer == binary_repo[capability]
             asked == [queries EXCEPT ![capability] = @ + 1]
         IN  IF answer \in {NotFound, ResolverError}
             THEN [provider |-> None, cap_cache |-> cache, ext_queries |-> asked]
             ELSE [provider |-> answer,
                   cap_cache |-> Put(cache, capability, answer),
                   ext_queries |-> asked]

(***************************************************************************)
(* lc-rebuild.py: Planner.generate_plan, the dependency graph              *)
(***************************************************************************)
\* dep_graph.get(curr, [])
Consumers(graph, provider) == IF provider \in DOMAIN graph THEN graph[provider] ELSE {}

\* dep_graph[provider_id].add(consumer_id) on a defaultdict(set)
AddEdge(graph, provider_id, consumer_id) ==
    Put(graph, provider_id, Consumers(graph, provider_id) \cup {consumer_id})

\* a slip: the provider is not compared with the consumer
LinksToAnyManaged(provider_id, consumer_id) ==
    /\ provider_id # None
    /\ provider_id \in managed_pkg_ids

\* whether a resolved provider becomes an edge to consumer_id
LinksTo(provider_id, consumer_id) ==
    /\ provider_id # None
    /\ provider_id \in managed_pkg_ids
    /\ provider_id # consumer_id

\* the body of "for req in reqs" for one requirement; st holds cap_cache,
\* ext_queries and dep_graph
LinkReq(st, consumer_id, req) ==
    IF IsReserved(req) THEN st
    ELSE LET r == resolve_provider(st.cap_cache, st.ext_queries, req) IN
         [cap_cache |-> r.cap_cache,
          ext_queries |-> r.ext_queries,
          dep_graph |-> IF LinksTo(r.provider, consumer_id)
                        THEN AddEdge(st.dep_graph, r.provider, consumer_id)
                        ELSE st.dep_graph]

RECURSIVE LinkAll(_, _, _)
\* "for req in reqs" over the requirements in the order `reqs`
LinkAll(st, consumer_id, reqs) ==
    IF reqs = <<>> THEN st
    ELSE LinkAll(LinkReq(st, consumer_id, Head(reqs)), consumer_id, Tail(reqs))

\* generate_plan returns at once when forges/ does not exist: no plan is written,
\* and main() ends normally
GeneratePlanMissing ==
    /\ pc = "graph"
    /\ ~forges_exists
    /\ pc' = "done"
    /\ planner_exit' = <<0>>
    /\ UNCHANGED <<inputVars, scanVars, graphVars, bfsVars, plan_file, chainVars>>

\* one iteration of "for consumer_id in managed_pkg_ids" (a set: any order), the
\* requirements taken in any order
GraphConsumer(consumer_id) ==
    /\ pc = "graph"
    /\ forges_exists
    /\ consumer_id \in managed_pkg_ids \ graphed
    /\ \E reqs \in Orders(IF HasSpec(consumer_id)
                          THEN get_spec_build_requires(consumer_id) ELSE {}) :
         LET st == LinkAll([cap_cache |-> cap_cache, ext_queries |-> ext_queries,
                            dep_graph |-> dep_graph], consumer_id, reqs)
         IN  /\ cap_cache' = st.cap_cache
             /\ ext_queries' = st.ext_queries
             /\ dep_graph' = st.dep_graph
    /\ graphed' = graphed \cup {consumer_id}
    /\ pc' = IF graphed' = managed_pkg_ids THEN "seed" ELSE "graph"
    /\ UNCHANGED <<inputVars, scanVars, bfsVars, plan_file, planner_exit, chainVars>>

(***************************************************************************)
(* lc-rebuild.py: Planner.generate_plan, the traversal                     *)
(***************************************************************************)
\* consumer in affected
Has(aff, pkg_id) == \E i \in 1..Len(aff) : aff[i].package = pkg_id
\* affected[consumer]
LevelOf(aff, pkg_id) == aff[CHOOSE i \in 1..Len(aff) : aff[i].package = pkg_id].level
\* affected[pkg_id] = lvl: a new key goes last, an old key keeps its place
SetLevel(aff, pkg_id, lvl) ==
    IF Has(aff, pkg_id)
    THEN [i \in 1..Len(aff) |->
            IF aff[i].package = pkg_id THEN [package |-> pkg_id, level |-> lvl] ELSE aff[i]]
    ELSE Append(aff, [package |-> pkg_id, level |-> lvl])
\* one more append of pkg_id to the queue
Count(enq, pkg_id) == [enq EXCEPT ![pkg_id] = @ + 1]

\* a slip: every trigger id is taken for a managed package
IsValidTriggerAny(pid) == TRUE

\* a slip: a trigger must also hold a spec file
IsValidTriggerWithSpec(pid) == pid \in managed_pkg_ids /\ forges[pid].has_spec

\* pid not in managed_pkg_ids: the trigger is skipped with a warning
IsValidTrigger(pid) == pid \in managed_pkg_ids

RECURSIVE SeedAll(_, _)
\* "for pid in trigger_ids": st holds affected, queue and enqueued
SeedAll(st, pids) ==
    IF pids = <<>> THEN st
    ELSE LET pid == Head(pids) IN
         IF ~IsValidTrigger(pid) THEN SeedAll(st, Tail(pids))
         ELSE SeedAll([affected |-> SetLevel(st.affected, pid, 0),
                       queue |-> Append(st.queue, <<pid, 0>>),
                       enqueued |-> Count(st.enqueued, pid)], Tail(pids))

\* a slip: next_level = level
NextLevelSame(level) == level

\* a slip: next_level = level + 2
NextLevelSkips(level) == level + 2

\* next_level = level + 1
NextLevel(level) == level + 1

\* a slip: a package is recorded only when it already holds a greater level
ShouldRecordOnlyLower(aff, consumer, next_level) ==
    Has(aff, consumer) /\ LevelOf(aff, consumer) > next_level

\* a slip: the comparison turned round
ShouldRecordHigher(aff, consumer, next_level) ==
    ~Has(aff, consumer) \/ LevelOf(aff, consumer) < next_level

\* consumer not in affected or affected[consumer] > next_level
ShouldRecord(aff, consumer, next_level) ==
    ~Has(aff, consumer) \/ LevelOf(aff, consumer) > next_level

RECURSIVE Visit(_, _, _)
\* "for consumer in consumers" over the consumers in the order `consumers`
Visit(st, level, consumers) ==
    IF consumers = <<>> THEN st
    ELSE LET consumer == Head(consumers)
             next_level == NextLevel(level)
         IN  IF ShouldRecord(st.affected, consumer, next_level)
             THEN Visit([affected |-> SetLevel(st.affected, consumer, next_level),
                         queue |-> Append(st.queue, <<consumer, next_level>>),
                         enqueued |-> Count(st.enqueued, consumer)], level, Tail(consumers))
             ELSE Visit(st, level, Tail(consumers))

\* a slip: queue[0] read, nothing removed
PopLeftPeek(q) == q

\* queue.popleft(): what is left of the queue
PopLeft(q) == Tail(q)

\* the seeding loop, on the trigger list the planner was started with
Seed(pids) ==
    /\ pc = "seed"
    /\ trigger_ids' = pids
    /\ LET st == SeedAll([affected |-> <<>>, queue |-> <<>>, enqueued |-> enqueued], pids)
       IN  /\ affected' = st.affected
           /\ queue' = st.queue
           /\ enqueued' = st.enqueued
    /\ pc' = "bfs"
    /\ UNCHANGED <<inputVars, scanVars, graphVars, plan_file, planner_exit, chainVars>>

\* one iteration of "while queue": the consumers are a set, taken in any order
BfsStep ==
    /\ pc = "bfs"
    /\ queue # <<>>
    /\ LET curr == Head(queue)[1]
           level == Head(queue)[2]
       IN  \E consumers \in Orders(Consumers(dep_graph, curr)) :
             LET st == Visit([affected |-> affected, queue |-> PopLeft(queue),
                              enqueued |-> enqueued], level, consumers)
             IN  /\ affected' = st.affected
                 /\ queue' = st.queue
                 /\ enqueued' = st.enqueued
    /\ UNCHANGED <<inputVars, pc, scanVars, graphVars, trigger_ids, plan_file,
                   planner_exit, chainVars>>

(***************************************************************************)
(* lc-rebuild.py: Planner.generate_plan, the task array                    *)
(***************************************************************************)
\* a slip: the sort key is x['package'] alone
KeyLEByPackage(t, u) == ~StrLess(u.package, t.package)

\* a slip: the sort key is x['level'] alone
KeyLEByLevel(t, u) == t.level <= u.level

\* the sort key (x['level'], x['package']) of t is not greater than that of u
KeyLE(t, u) ==
    \/ t.level < u.level
    \/ t.level = u.level /\ ~StrLess(u.package, t.package)

\* t put into the sorted sequence s, after the elements whose key is not greater
\* (list.sort is stable)
InsertSorted(s, t) ==
    LET k == Cardinality({i \in 1..Len(s) : KeyLE(s[i], t)})
    IN  SubSeq(s, 1, k) \o <<t>> \o SubSeq(s, k + 1, Len(s))

RECURSIVE SortFrom(_, _)
SortFrom(sorted, rest) ==
    IF rest = <<>> THEN sorted ELSE SortFrom(InsertSorted(sorted, Head(rest)), Tail(rest))

\* tasks built from affected.items(), then tasks.sort(key=...)
SortTasks(aff) == SortFrom(<<>>, aff)

\* the queue is empty: the task array is sorted and written, main() ends normally
WritePlan ==
    /\ pc = "bfs"
    /\ queue = <<>>
    /\ plan_file' = [written |-> TRUE, tasks |-> SortTasks(affected)]
    /\ pc' = "done"
    /\ planner_exit' = <<0>>
    /\ UNCHANGED <<inputVars, scanVars, graphVars, bfsVars, chainVars>>

(***************************************************************************)
(* The planner's specification.                                            *)
(***************************************************************************)
\* a package whose spec parses, named after its directory, with no extra Provides
PlainDescriptor(pkg_id, reqs) ==
    [has_spec |-> TRUE, names |-> {pkg_id}, provides |-> {}, buildrequires |-> reqs,
     fails |-> {}]

\* no external repository provides anything
NoBinaryRepo == [cap \in Tokens |-> NotFound]

\* the trigger lists a planner run is started with (--trigger is required)
TriggerLists == SeqsBetween(Pkgs \cup {Ghost}, 1, MaxTriggers)

\* Planner.__init__ up to the scan, and the locals of generate_plan
PlannerStart ==
    /\ pc = "scan"
    /\ scanned = {}
    /\ local_provides_map = EmptyDict
    /\ cap_cache = EmptyDict
    /\ ext_queries = [cap \in Tokens |-> 0]
    /\ graphed = {}
    /\ dep_graph = EmptyDict
    /\ trigger_ids = <<>>
    /\ affected = <<>>
    /\ queue = <<>>
    /\ enqueued = [p \in Pkgs |-> 0]
    /\ planner_exit = <<>>

\* no chain process runs
ChainIdle ==
    /\ gpg_key_id = FALSE
    /\ swallowed = {}
    /\ chain_pc = "idle"
    /\ tasks = <<>>
    /\ idx = 0
    /\ invoked = <<>>
    /\ status = <<>>
    /\ build_success = FALSE
    /\ new_rpms = {}
    /\ repo_rpms = {}
    /\ repodata = {}
    /\ printed = {}
    /\ lc_exit = <<>>

\* every source tree of plain packages whose BuildRequires name packages of the tree
\* (any dependency graph over Pkgs, self-requirements included), or no forges/ at all
Init ==
    /\ \/ /\ forges_exists = TRUE
          /\ \E reqs \in [Pkgs -> SUBSET Pkgs] :
               forges = [p \in Pkgs |-> PlainDescriptor(p, reqs[p])]
       \/ /\ forges_exists = FALSE
          /\ forges = [p \in Pkgs |-> PlainDescriptor(p, {})]
    /\ binary_repo = NoBinaryRepo
    /\ plan_file = [written |-> FALSE, tasks |-> <<>>]
    /\ PlannerStart
    /\ ChainIdle

Next ==
    \/ ScanMissing
    \/ \E pkg_id \in Pkgs : ScanPackage(pkg_id)
    \/ GeneratePlanMissing
    \/ \E consumer_id \in Pkgs : GraphConsumer(consumer_id)
    \/ \E pids \in TriggerLists : Seed(pids)
    \/ BfsStep
    \/ WritePlan

Spec == Init /\ [][Next]_vars
FairSpec == Spec /\ WF_vars(Next)

(***************************************************************************)
(* What the properties speak of.                                           *)
(***************************************************************************)
\* generate_plan has written the plan file
PlanWritten == pc = "done" /\ plan_file.written
\* the packages, levels and positions of the written task array
PlanPkgs == {plan_file.tasks[i].package : i \in 1..Len(plan_file.tasks)}
PlanPos(pkg_id) == CHOOSE i \in 1..Len(plan_file.tasks) : plan_file.tasks[i].package = pkg_id
PlanLevel(pkg_id) == plan_file.tasks[PlanPos(pkg_id)].level
\* the edges provider -> consumer of dep_graph
Edges == {e \in Pkgs \X Pkgs : e[2] \in Consumers(dep_graph, e[1])}
\* the edges whose two ends are in the plan
PlanEdges == {e \in Edges : e[1] \in PlanPkgs /\ e[2] \in PlanPkgs}
\* the triggers that name a managed package
ValidTriggers == Range(trigger_ids) \cap managed_pkg_ids
\* the packages reached from the set S over at most n edges
RECURSIVE Within(_, _)
Within(S, n) ==
    IF n = 0 THEN S
    ELSE LET W == Within(S, n - 1) IN W \cup {e[2] : e \in {f \in Edges : f[1] \in W}}
\* the packages reached from S over any number of edges
Reachable(S) == Within(S, Cardinality(Pkgs))
\* the length of the shortest path from a member of S to pkg_id
Dist(S, pkg_id) == CHOOSE n \in 0..Cardinality(Pkgs) :
                      /\ pkg_id \in Within(S, n)
                      /\ \A m \in 0..(n - 1) : pkg_id \notin Within(S, m)

\* C4 as claimed: for every edge p -> c with both ends in the final plan,
\* level(p) < level(c) and p's task precedes c's task.
C4_StrictLevels ==
    PlanWritten =>
        \A e \in PlanEdges :
            /\ PlanLevel(e[1]) < PlanLevel(e[2])
            /\ PlanPos(e[1]) < PlanPos(e[2])

\* C4 as amended: for every edge p -> c with both ends in the final plan,
\* level(c) <= level(p) + 1, and p's task precedes c's task whenever
\* level(p) < level(c).
C4_EdgeLevels ==
    PlanWritten =>
        \A e \in PlanEdges :
            /\ PlanLevel(e[2]) <= PlanLevel(e[1]) + 1
            /\ (PlanLevel(e[1]) < PlanLevel(e[2])) => (PlanPos(e[1]) < PlanPos(e[2]))

\* a plan over a graph with an edge that rises one level and an edge that does not
C4_Witness ==
    /\ PlanWritten
    /\ \E e \in PlanEdges : PlanLevel(e[1]) < PlanLevel(e[2])
    /\ \E e \in PlanEdges : PlanLevel(e[1]) > PlanLevel(e[2])

\* C5: the packages of the plan are exactly the managed packages reachable over
\* zero or more edges from a valid trigger.
C5_PlanIsReachableSet ==
    PlanWritten => PlanPkgs = Reachable(ValidTriggers)

\* a plan with a package that is no trigger, beside a managed package left out of
\* it although one of its consumers is in it
C5_Witness ==
    /\ PlanWritten
    /\ PlanPkgs \ ValidTriggers # {}
    /\ \E p \in managed_pkg_ids \ PlanPkgs : Consumers(dep_graph, p) \cap PlanPkgs # {}

\* C6: the level of every task is the length of the shortest path to its package
\* from a valid trigger.
C6_LevelIsDistance ==
    PlanWritten =>
        \A i \in 1..Len(plan_file.tasks) :
            plan_file.tasks[i].level = Dist(ValidTriggers, plan_file.tasks[i].package)

\* a plan with a package at level 2 on a cycle, and a package a longer path reaches too
C6_Witness ==
    /\ PlanWritten
    /\ \E p \in PlanPkgs : PlanLevel(p) = 2 /\ Consumers(dep_graph, p) \cap PlanPkgs # {}
    /\ \E e \in PlanEdges : PlanLevel(e[2]) >= 1 /\ PlanLevel(e[1]) >= PlanLevel(e[2])

\* C7: every level recorded during the traversal or written to the plan is a
\* natural number, and from seeding on every valid trigger holds level 0.
C7_LevelsNatTriggersZero ==
    /\ \A i \in 1..Len(affected) : affected[i].level \in Nat
    /\ \A i \in 1..Len(queue) : queue[i][2] \in Nat
    /\ \A i \in 1..Len(plan_file.tasks) : plan_file.tasks[i].level \in Nat
    /\ pc \in {"bfs", "done"} =>
         \A t \in ValidTriggers : Has(affected, t) /\ LevelOf(affected, t) = 0
    /\ PlanWritten => \A t \in ValidTriggers : t \in PlanPkgs /\ PlanLevel(t) = 0

\* a plan in which a trigger is itself a consumer of a package of the plan
C7_Witness ==
    /\ PlanWritten
    /\ \E e \in PlanEdges : e[2] \in ValidTriggers /\ PlanLevel(e[1]) >= 1
\* one fixed ordering of the set S
RefOrder(S) == CHOOSE s \in Orders(S) : TRUE
\* the counters before any query or append
NoQueries == [cap \in Tokens |-> 0]
NoAppends == [p \in Pkgs |-> 0]
\* the requirements generate_plan reads for a consumer
ReqsOf(consumer_id) ==
    IF HasSpec(consumer_id) THEN get_spec_build_requires(consumer_id) ELSE {}
RECURSIVE RefGraphFrom(_, _)
\* the graph loop run over the consumers in the order `consumers`, each
\* requirement set in its fixed order
RefGraphFrom(st, consumers) ==
    IF consumers = <<>> THEN st
    ELSE RefGraphFrom(LinkAll(st, Head(consumers), RefOrder(ReqsOf(Head(consumers)))),
                      Tail(consumers))
\* the graph of the reference run: the same source tree and capability index, every
\* set iterated in its fixed order
RefGraph ==
    RefGraphFrom([cap_cache |-> EmptyDict, ext_queries |-> NoQueries,
                  dep_graph |-> EmptyDict], RefOrder(managed_pkg_ids)).dep_graph
RECURSIVE RefDrain(_, _)
\* "while queue" run to its end on `graph`, every consumer set in its fixed order
RefDrain(graph, st) ==
    IF st.queue = <<>> THEN st.affected
    ELSE RefDrain(graph,
                  Visit([affected |-> st.affected, queue |-> PopLeft(st.queue),
                         enqueued |-> st.enqueued],
                        Head(st.queue)[2],
                        RefOrder(Consumers(graph, Head(st.queue)[1]))))
\* affected at the end of the reference run: the triggers listed once each, in the
\* fixed order of their set
RefAffected ==
    RefDrain(RefGraph,
             SeedAll([affected |-> <<>>, queue |-> <<>>, enqueued |-> NoAppends],
                     RefOrder(Range(trigger_ids))))
\* the task array the reference run writes
RefPlan == SortTasks(RefAffected)

\* C8: whatever order the run iterated the managed packages, the requirement sets
\* and the consumer sets in, and however its triggers were listed, the task array it
\* writes is the one the reference run writes for the same source tree, capability
\* index and trigger set.
C8_PlanIndependentOfOrders ==
    PlanWritten => plan_file.tasks = RefPlan

\* a run that listed its triggers and recorded its packages in another order than
\* the reference run, with two packages at the same level
C8_Witness ==
    /\ PlanWritten
    /\ affected # RefAffected
    /\ trigger_ids # RefOrder(Range(trigger_ids))
    /\ \E p, q \in PlanPkgs : p # q /\ PlanLevel(p) = PlanLevel(q) /\ PlanLevel(p) >= 1

\* C10: once seeded, the traversal reaches an empty queue and generate_plan ends.
C10_TraversalTerminates ==
    (pc = "bfs") ~> (queue = <<>> /\ pc = "done")

\* a finished traversal over a graph in which two packages of the plan depend on
\* each other
C10_Witness ==
    /\ PlanWritten
    /\ queue = <<>>
    /\ \E e \in PlanEdges : <<e[2], e[1]>> \in PlanEdges
(***************************************************************************)
(* The planner on source trees with virtual capabilities and external      *)
(* repositories.                                                           *)
(***************************************************************************)
\* what a package of such a tree may BuildRequire: nothing, the virtual capability,
\* its own name, or both
ReqMenu(pkg_id) == SUBSET {VirtualCap, pkg_id}
\* what it may list under Provides: nothing, or the virtual capability
ProvMenu == SUBSET {VirtualCap}
\* what the external repositories answer, the same for every capability asked
AnswerMenu == {NotFound, ResolverError, "a", ExtPkg}
\* the trigger lists of these runs: one managed package
OneTrigger == SeqsBetween(Pkgs, 1, 1)

InitResolve ==
    /\ forges_exists = TRUE
    /\ \E reqs \in [Pkgs -> SUBSET Tokens], provs \in [Pkgs -> ProvMenu] :
         /\ \A p \in Pkgs : reqs[p] \in ReqMenu(p)
         /\ forges = [p \in Pkgs |->
                        [has_spec |-> TRUE, names |-> {p}, provides |-> provs[p],
                         buildrequires |-> reqs[p], fails |-> {}]]
    /\ \E answer \in AnswerMenu : binary_repo = [cap \in Tokens |-> answer]
    /\ plan_file = [written |-> FALSE, tasks |-> <<>>]
    /\ PlannerStart
    /\ ChainIdle

ResolveNext ==
    \/ \E pkg_id \in Pkgs : ScanPackage(pkg_id)
    \/ \E consumer_id \in Pkgs : GraphConsumer(consumer_id)
    \/ \E pids \in OneTrigger : Seed(pids)
    \/ BfsStep
    \/ WritePlan

ResolveSpec == InitResolve /\ [][ResolveNext]_vars

\* C9: dep_graph never holds an edge from a package to itself.
C9_NoSelfEdge ==
    \A p \in Pkgs : p \notin Consumers(dep_graph, p)

\* the graph is built: one package required its own name, which the local index
\* resolved to it, another required a capability the external repositories resolved
\* to it, and the graph has an edge
C9_Witness ==
    /\ pc = "seed"
    /\ \E p \in Pkgs :
         /\ p \in ReqsOf(p)
         /\ p \in DOMAIN local_provides_map /\ local_provides_map[p] = p
         /\ p \in DOMAIN cap_cache /\ cap_cache[p] = p
    /\ \E q \in Pkgs :
         /\ VirtualCap \in ReqsOf(q)
         /\ VirtualCap \notin DOMAIN local_provides_map
         /\ VirtualCap \in DOMAIN cap_cache /\ cap_cache[VirtualCap] = q
    /\ Edges # {}
(***************************************************************************)
(* lc.py: run_cmd, chain, single_build                                     *)
(***************************************************************************)
\* the places of single_build at which the process is inside a task
BuildPcs == {"prepare", "sources", "srpm", "rebuild", "save", "sign", "createrepo",
             "sign_repodata"}
\* the task the loop is at: tasks[idx], with Python's 0-based idx
CurrentTask == tasks[idx + 1]
\* single_build(): gpg_key_id, None when the read of .lc_config was cut short
BuildKey == gpg_key_id /\ (idx + 1) \notin swallowed
\* the RPM file the task at position i (1-based) copies into the repository
Rpm(i) == <<i, tasks[i].package>>

\* run_cmd on a failing command: sys.exit(1). SystemExit is no Exception, so the
\* except clause of single_build lets it through and the process ends
SysExit ==
    /\ chain_pc' = "exited"
    /\ lc_exit' = <<1>>
    /\ status' = [status EXCEPT ![idx + 1] = "Failed"]

\* single_build returns `result` to chain()
ReturnFromBuild(result) ==
    /\ chain_pc' = "returned"
    /\ build_success' = result
    /\ status' = [status EXCEPT ![idx + 1] = IF result THEN "Succeeded" ELSE "Failed"]

\* main() calls args.func(args) and drops what it returns: the process ends with
\* status 0 whenever do_build returns
MainReturns ==
    /\ chain_pc' = "exited"
    /\ lc_exit' = <<0>>

\* a slip: the index is left as it was
IndexKeepOld(rpms, old_index) == old_index

\* createrepo_c --update repo_dir: the index covers the RPM files of the directory
IndexOf(rpms, old_index) == rpms

\* chain(): the plan file is opened and parsed; a failure prints and returns False
ChainLoad ==
    /\ chain_pc = "start"
    /\ IF plan_file.written
       THEN /\ tasks' = plan_file.tasks
            /\ status' = [i \in 1..Len(plan_file.tasks) |-> "Pending"]
            /\ chain_pc' = "loop"
            /\ lc_exit' = lc_exit
       ELSE /\ UNCHANGED <<tasks, status>>
            /\ MainReturns
    /\ UNCHANGED <<inputVars, plannerVars, plan_file, gpg_key_id, swallowed, idx, invoked,
                   build_success, new_rpms, repo_rpms, repodata, printed>>

\* chain(): the next iteration of "for idx, task in enumerate(tasks)" calls
\* single_build on the task's package
ChainTask ==
    /\ chain_pc = "loop"
    /\ idx < Len(tasks)
    /\ printed' = printed \cup {<<"Chain Task", CurrentTask.package>>}
    /\ invoked' = Append(invoked, CurrentTask.package)
    /\ status' = [status EXCEPT ![idx + 1] = "Running"]
    /\ build_success' = FALSE
    /\ new_rpms' = {}
    /\ chain_pc' = "prepare"
    /\ UNCHANGED <<inputVars, plannerVars, plan_file, gpg_key_id, swallowed, tasks, idx, repo_rpms,
                   repodata, lc_exit>>

\* a slip: the index is regenerated once more when the loop is over
ChainCompletedReindex ==
    /\ chain_pc = "loop"
    /\ idx = Len(tasks)
    /\ MainReturns
    /\ repodata' = IndexOf(repo_rpms, repodata)
    /\ UNCHANGED <<inputVars, plannerVars, plan_file, gpg_key_id, swallowed, tasks, idx, invoked,
                   status, build_success, new_rpms, repo_rpms, printed>>

\* chain(): the loop is over, chain returns True
ChainCompleted ==
    /\ chain_pc = "loop"
    /\ idx = Len(tasks)
    /\ MainReturns
    /\ UNCHANGED <<inputVars, plannerVars, plan_file, gpg_key_id, swallowed, tasks, idx, invoked,
                   status, build_success, new_rpms, repo_rpms, repodata, printed>>

\* single_build up to the spec file: --max-mem without systemd-run ends the
\* process; a missing source dir, repo dir or spec file returns False
BuildPrepare ==
    /\ chain_pc = "prepare"
    /\ \E outcome \in {"ok", "no_systemd_run", "no_source_dir", "no_repo_dir", "no_spec"} :
         CASE outcome = "ok" ->
                /\ chain_pc' = "sources"
                /\ UNCHANGED <<build_success, status, lc_exit>>
           [] outcome = "no_systemd_run" ->
                /\ SysExit
                /\ UNCHANGED build_success
           [] OTHER ->
                /\ ReturnFromBuild(FALSE)
                /\ UNCHANGED lc_exit
    /\ UNCHANGED <<inputVars, plannerVars, plan_file, gpg_key_id, swallowed, tasks, idx, invoked,
                   new_rpms, repo_rpms, repodata, printed>>

\* a step of the try block that runs a command and changes nothing in the
\* repository: it goes on to `next`, raises an Exception (caught: the build has
\* failed, single_build returns False) or has its command fail in run_cmd
CommandStep(here, next, outcomes) ==
    /\ chain_pc = here
    /\ \E outcome \in outcomes :
         CASE outcome = "ok" ->
                /\ chain_pc' = next
                /\ UNCHANGED <<build_success, status, lc_exit>>
           [] outcome = "raise" ->
                /\ ReturnFromBuild(FALSE)
                /\ UNCHANGED lc_exit
           [] OTHER ->
                /\ SysExit
                /\ UNCHANGED build_success
    /\ UNCHANGED <<inputVars, plannerVars, plan_file, gpg_key_id, swallowed, tasks, idx, invoked,
                   new_rpms, repo_rpms, repodata, printed>>

\* copytree, spectool -g, the release bump
BuildSources == CommandStep("sources", "srpm", {"ok", "raise", "exit"})

\* mock --buildsrpm; no *.src.rpm raises "SRPM creation failed"
BuildSRPM == CommandStep("srpm", "rebuild", {"ok", "raise", "exit"})

\* mock --rebuild with the shared repository added
BuildRPM == CommandStep("rebuild", "save", {"ok", "exit"})

\* the built RPMs are copied into the repository; a failing copy raises
SaveRPMs ==
    /\ chain_pc = "save"
    /\ \E outcome \in {"ok", "raise"} :
         IF outcome = "ok"
         THEN /\ repo_rpms' = repo_rpms \cup {Rpm(idx + 1)}
              /\ new_rpms' = {Rpm(idx + 1)}
              /\ chain_pc' = "sign"
              /\ UNCHANGED <<build_success, status>>
         ELSE /\ ReturnFromBuild(FALSE)
              /\ UNCHANGED <<repo_rpms, new_rpms>>
    /\ UNCHANGED <<inputVars, plannerVars, plan_file, gpg_key_id, swallowed, tasks, idx, invoked,
                   repodata, printed, lc_exit>>

\* sign_rpms when a key is configured (rpm --addsign through run_cmd), then
\* build_success = True, the log archive, and on to createrepo
SignRPMs ==
    /\ chain_pc = "sign"
    /\ \E outcome \in (IF BuildKey THEN {"ok", "exit"} ELSE {"ok"}) :
         IF outcome = "ok"
         THEN /\ build_success' = TRUE
              /\ chain_pc' = "createrepo"
              /\ UNCHANGED <<status, lc_exit>>
         ELSE /\ SysExit
              /\ UNCHANGED build_success
    /\ UNCHANGED <<inputVars, plannerVars, plan_file, gpg_key_id, swallowed, tasks, idx, invoked,
                   new_rpms, repo_rpms, repodata, printed>>

\* run_cmd(["createrepo_c", "--update", repo_dir])
Createrepo ==
    /\ chain_pc = "createrepo"
    /\ \E outcome \in {"ok", "exit"} :
         IF outcome = "ok"
         THEN /\ repodata' = IndexOf(repo_rpms, repodata)
              /\ chain_pc' = "sign_repodata"
              /\ UNCHANGED <<status, lc_exit>>
         ELSE /\ SysExit
              /\ UNCHANGED repodata
    /\ UNCHANGED <<inputVars, plannerVars, plan_file, gpg_key_id, swallowed, tasks, idx, invoked,
                   build_success, new_rpms, repo_rpms, printed>>

\* sign_repodata when a key is configured, then single_build returns True
SignRepodata ==
    /\ chain_pc = "sign_repodata"
    /\ \E outcome \in (IF BuildKey THEN {"ok", "exit"} ELSE {"ok"}) :
         IF outcome = "ok"
         THEN /\ ReturnFromBuild(TRUE)
              /\ lc_exit' = lc_exit
         ELSE /\ SysExit
              /\ UNCHANGED build_success
    /\ UNCHANGED <<inputVars, plannerVars, plan_file, gpg_key_id, swallowed, tasks, idx, invoked,
                   new_rpms, repo_rpms, repodata, printed>>

\* a slip: a failed task is skipped and the loop goes on
ChainBrokenContinue ==
    /\ chain_pc = "returned"
    /\ ~build_success
    /\ printed' = printed \cup {<<"Chain broken", CurrentTask.package>>}
    /\ idx' = idx + 1
    /\ chain_pc' = "loop"
    /\ UNCHANGED <<inputVars, plannerVars, plan_file, gpg_key_id, swallowed, tasks, invoked, status,
                   build_success, new_rpms, repo_rpms, repodata, lc_exit>>

\* a slip: a failed task is tried again
ChainBrokenRetry ==
    /\ chain_pc = "returned"
    /\ ~build_success
    /\ printed' = printed \cup {<<"Chain broken", CurrentTask.package>>}
    /\ chain_pc' = "loop"
    /\ UNCHANGED <<inputVars, plannerVars, plan_file, gpg_key_id, swallowed, tasks, idx, invoked,
                   status, build_success, new_rpms, repo_rpms, repodata, lc_exit>>

\* chain(): single_build returned False: "Chain broken at <package>", return False
ChainBroken ==
    /\ chain_pc = "returned"
    /\ ~build_success
    /\ printed' = printed \cup {<<"Chain broken", CurrentTask.package>>}
    /\ MainReturns
    /\ UNCHANGED <<inputVars, plannerVars, plan_file, gpg_key_id, swallowed, tasks, idx, invoked,
                   status, build_success, new_rpms, repo_rpms, repodata>>

\* chain(): single_build returned True: the loop goes to the next task
ChainAdvance ==
    /\ chain_pc = "returned"
    /\ build_success
    /\ idx' = idx + 1
    /\ chain_pc' = "loop"
    /\ UNCHANGED <<inputVars, plannerVars, plan_file, gpg_key_id, swallowed, tasks, invoked, status,
                   build_success, new_rpms, repo_rpms, repodata, printed, lc_exit>>

\* SIGINT while the process runs: KeyboardInterrupt is no Exception, nothing in
\* chain or single_build catches it, and the process ends with the signal's status
KeyboardInterrupt ==
    /\ chain_pc \notin {"idle", "exited"}
    /\ chain_pc' = "exited"
    /\ lc_exit' = <<130>>
    /\ status' = IF chain_pc \in BuildPcs
                 THEN [status EXCEPT ![idx + 1] = "Interrupted"] ELSE status
    /\ UNCHANGED <<inputVars, plannerVars, plan_file, gpg_key_id, swallowed, tasks, idx, invoked,
                   build_success, new_rpms, repo_rpms, repodata, printed>>

\* SIGINT while single_build reads .lc_config: the bare "except: pass" around the
\* read catches the KeyboardInterrupt, gpg_key_id stays None and the build goes on
KeyboardInterruptSwallowed ==
    /\ chain_pc = "prepare"
    /\ Cardinality(swallowed) < MaxSwallowed
    /\ (idx + 1) \notin swallowed
    /\ swallowed' = swallowed \cup {idx + 1}
    /\ UNCHANGED <<inputVars, plannerVars, plan_file, gpg_key_id, chain_pc, tasks, idx,
                   invoked, status, build_success, new_rpms, repo_rpms, repodata, printed,
                   lc_exit>>

(***************************************************************************)
(* The chain executor's specification.                                     *)
(***************************************************************************)
\* the task arrays a plan file may hold: any packages in any order, any levels
Plans == SeqsBetween([package : Pkgs, level : 0..1], 0, MaxTasks)

\* no planner runs
PlannerIdle ==
    /\ pc = "idle"
    /\ scanned = {}
    /\ local_provides_map = EmptyDict
    /\ cap_cache = EmptyDict
    /\ ext_queries = NoQueries
    /\ graphed = {}
    /\ dep_graph = EmptyDict
    /\ trigger_ids = <<>>
    /\ affected = <<>>
    /\ queue = <<>>
    /\ enqueued = NoAppends
    /\ planner_exit = <<>>

\* an RPM file an earlier build left in the repository
OldRpm == <<0, "a">>

\* "lc build --chain <plan>" starts: any plan file or none, signing on or off, a
\* repository that is empty or holds the RPM of an earlier build, indexed or not
ChainInit ==
    /\ forges_exists = TRUE
    /\ forges = [p \in Pkgs |-> PlainDescriptor(p, {})]
    /\ binary_repo = NoBinaryRepo
    /\ PlannerIdle
    /\ \/ \E plan \in Plans : plan_file = [written |-> TRUE, tasks |-> plan]
       \/ plan_file = [written |-> FALSE, tasks |-> <<>>]
    /\ gpg_key_id \in BOOLEAN
    /\ swallowed = {}
    /\ chain_pc = "start"
    /\ tasks = <<>>
    /\ idx = 0
    /\ invoked = <<>>
    /\ status = <<>>
    /\ build_success = FALSE
    /\ new_rpms = {}
    /\ repo_rpms \in SUBSET {OldRpm}
    /\ repodata \in SUBSET repo_rpms
    /\ printed = {}
    /\ lc_exit = <<>>

ChainNext ==
    \/ ChainLoad
    \/ ChainTask
    \/ ChainCompleted
    \/ BuildPrepare
    \/ BuildSources
    \/ BuildSRPM
    \/ BuildRPM
    \/ SaveRPMs
    \/ SignRPMs
    \/ Createrepo
    \/ SignRepodata
    \/ ChainBroken
    \/ ChainAdvance
    \/ KeyboardInterrupt
    \/ KeyboardInterruptSwallowed

ChainSpec == ChainInit /\ [][ChainNext]_vars
\* the positions of the tasks in a given state
TasksIn(st) == {i \in 1..Len(status) : status[i] = st}
\* the task at position i has committed: its RPM is in the repository and indexed
Committed(i) == Rpm(i) \in repo_rpms /\ Rpm(i) \in repodata

\* C1: single_build is called on the tasks in the order of the plan file's array;
\* once a task has failed it is called for no further task; and the artifacts and
\* index entries of every task before a failed one are in the repository.
C1_InOrderStopOnFailure ==
    /\ [](/\ Len(invoked) <= Len(plan_file.tasks)
          /\ \A i \in 1..Len(invoked) : invoked[i] = plan_file.tasks[i].package
          /\ \A k \in TasksIn("Failed") : \A j \in 1..(k - 1) : Committed(j))
    /\ [][(TasksIn("Failed") # {}) => (invoked' = invoked)]_vars

\* the second task of a three-task plan has failed and the process has ended, with
\* the first task's RPM in the repository and its index
C1_Witness ==
    /\ chain_pc = "exited"
    /\ Len(tasks) = 3
    /\ status = <<"Succeeded", "Failed", "Pending">>
    /\ invoked = <<tasks[1].package, tasks[2].package>>
    /\ Committed(1)

\* C2: while a task is running, and from then on, every task before it has
\* succeeded with its RPM in the repository and in the regenerated index; a task is
\* Succeeded only with its RPM indexed.
C2_IndexedBeforeNext ==
    /\ \A i \in 1..Len(status) :
         (status[i] # "Pending") =>
             \A j \in 1..(i - 1) : status[j] = "Succeeded" /\ Committed(j)
    /\ \A i \in TasksIn("Succeeded") : Committed(i)

\* the second task's mock --rebuild runs against the repository
C2_Witness ==
    /\ chain_pc = "rebuild"
    /\ Len(status) >= 2
    /\ status[2] = "Running"
    /\ Committed(1)

\* C3 as claimed: when the chain process has ended on a loaded plan, a failed task
\* means a non-zero exit status with the failing package id printed, and exit
\* status 0 means every task of the plan succeeded.
C3_ExitStatus ==
    (chain_pc = "exited" /\ plan_file.written) =>
        /\ \A k \in TasksIn("Failed") :
             /\ lc_exit # <<0>>
             /\ \E m \in printed : m[2] = tasks[k].package
        /\ (lc_exit = <<0>>) => (TasksIn("Succeeded") = 1..Len(plan_file.tasks))

(***************************************************************************)
(* lc-git.py: the post-receive hook runs the planner, then the chain       *)
(* executor on the plan file the planner wrote.                            *)
(***************************************************************************)
\* lc-rebuild has ended with status 0: the hook runs lc build --chain "$PLAN_FILE"
HookStartsChain ==
    /\ pc = "done"
    /\ planner_exit = <<0>>
    /\ chain_pc = "idle"
    /\ chain_pc' = "start"
    /\ gpg_key_id' \in BOOLEAN
    /\ UNCHANGED <<inputVars, plannerVars, plan_file, swallowed, tasks, idx, invoked,
                   status, build_success, new_rpms, repo_rpms, repodata, printed, lc_exit>>

HookNext ==
    \/ Next
    \/ HookStartsChain
    \/ ChainNext

HookSpec == Init /\ [][HookNext]_vars

\* the task array s is in ascending order of (level, package id)
SortedByLevelThenPackage(s) ==
    \A i, j \in 1..Len(s) :
        (i < j) => \/ s[i].level < s[j].level
                   \/ s[i].level = s[j].level /\ StrLess(s[i].package, s[j].package)

\* C11: the task array the planner writes is in ascending order of (level, package
\* id); the chain executor loads that array as it is and calls single_build on its
\* packages in that order, on all of them when the chain completes.
C11_SortedPlanBuiltInOrder ==
    /\ plan_file.written => SortedByLevelThenPackage(plan_file.tasks)
    /\ Len(invoked) <= Len(plan_file.tasks)
    /\ \A i \in 1..Len(invoked) : invoked[i] = plan_file.tasks[i].package
    /\ invoked # <<>> => tasks = plan_file.tasks
    /\ (plan_file.written /\ chain_pc = "exited" /\ lc_exit = <<0>>
            /\ TasksIn("Failed") = {}) =>
         Len(invoked) = Len(plan_file.tasks)

\* the chain has completed on a plan of three tasks, two of them at the same level,
\* which the planner had recorded in another order than the written one
C11_Witness ==
    /\ chain_pc = "exited"
    /\ lc_exit = <<0>>
    /\ Len(plan_file.tasks) = 3
    /\ TasksIn("Succeeded") = 1..3
    /\ plan_file.tasks[2].level = plan_file.tasks[3].level
    /\ affected # plan_file.tasks
    /\ invoked = <<plan_file.tasks[1].package, plan_file.tasks[2].package,
                   plan_file.tasks[3].package>>
\* C12 as claimed: when forges/ does not exist, the planner ends with a non-zero
\* exit status and no plan file is written.
C12_MissingForgesFails ==
    (pc = "done" /\ ~forges_exists) =>
        /\ planner_exit # <<0>>
        /\ ~plan_file.written

\* the trigger ids that name no managed package
InvalidTriggers == Range(trigger_ids) \ managed_pkg_ids

\* C13: on an existing forges/, a trigger id that names no managed package does not
\* stop the planner: the plan is written and the planner ends normally, the id is in
\* no task, every valid trigger is in the plan at level 0, and with no valid trigger
\* the written task array is empty.
C13_InvalidTriggerSkipped ==
    /\ pc \in {"bfs", "done"} =>
         \A t \in InvalidTriggers : ~Has(affected, t) /\ \A i \in 1..Len(queue) : queue[i][1] # t
    /\ (pc = "done" /\ forges_exists) =>
         /\ plan_file.written
         /\ planner_exit = <<0>>
         /\ InvalidTriggers \cap PlanPkgs = {}
         /\ \A t \in ValidTriggers : t \in PlanPkgs /\ PlanLevel(t) = 0
         /\ (ValidTriggers = {}) => (plan_file.tasks = <<>>)

\* a plan written for an unmanaged id listed before a managed one: the managed
\* trigger and a consumer of it are in the plan
C13_Witness ==
    /\ PlanWritten
    /\ Len(trigger_ids) = 2
    /\ trigger_ids[1] \in InvalidTriggers
    /\ trigger_ids[2] \in ValidTriggers
    /\ Len(plan_file.tasks) >= 2

\* the requirements of consumer_id that generate_plan hands to resolve_provider
ResolvedReqs(consumer_id) == {req \in ReqsOf(consumer_id) : ~IsReserved(req)}

\* C14: a capability of the local capability index resolves to the index's package
\* id, whatever the binary repositories answer for it and whichever resolve calls
\* came before: the cache holds no other provider for it, the binary repositories
\* are never asked about it, and a consumer that requires it has its edge from the
\* index's package.
C14_LocalIndexWins ==
    \A cap \in DOMAIN local_provides_map :
        /\ resolve_provider(cap_cache, ext_queries, cap).provider = local_provides_map[cap]
        /\ cap \in DOMAIN cap_cache => cap_cache[cap] = local_provides_map[cap]
        /\ pc # "scan" => ext_queries[cap] = 0
        /\ \A c \in graphed :
             (cap \in ResolvedReqs(c) /\ local_provides_map[cap] # c) =>
                 c \in Consumers(dep_graph, local_provides_map[cap])

\* the graph is built: the binary repositories give package a for the virtual
\* capability, the local index gives b, and c, which requires it, hangs under b only
C14_Witness ==
    /\ pc = "seed"
    /\ binary_repo[VirtualCap] = "a"
    /\ VirtualCap \in DOMAIN local_provides_map /\ local_provides_map[VirtualCap] = "b"
    /\ VirtualCap \in DOMAIN cap_cache /\ cap_cache[VirtualCap] = "b"
    /\ VirtualCap \in ResolvedReqs("c")
    /\ "c" \in Consumers(dep_graph, "b")
    /\ "c" \notin Consumers(dep_graph, "a")

\* the capability tokens the spec file of pkg_id declares: its RPM names and Provides
Declares(pkg_id) == forges[pkg_id].names \cup forges[pkg_id].provides
\* the packages with a spec file on which every rpmspec query succeeds
Parses(pkg_id) == HasSpec(pkg_id) /\ forges[pkg_id].fails = {}
\* the packages that declare the token
Declarers(token) == {p \in Pkgs : Parses(p) /\ token \in Declares(p)}

\* C15: the scan of a package maps every token it declares to that package, whoever
\* held the token before, and leaves the other tokens as they are, so a token
\* declared by several packages ends with the one scanned last; the index maps it
\* to one package, a declarer, and the token resolves to that package.
C15_LastScannedWins ==
    /\ [][\A p \in Pkgs : (p \in scanned' \ scanned /\ Parses(p)) =>
            /\ \A t \in Declares(p) :
                 t \in DOMAIN local_provides_map' /\ local_provides_map'[t] = p
            /\ \A t \in (DOMAIN local_provides_map) \ Declares(p) :
                 t \in DOMAIN local_provides_map' /\ local_provides_map'[t] = local_provides_map[t]
         ]_vars
    /\ [](\A t \in Tokens :
            (pc # "scan" /\ Cardinality(Declarers(t)) >= 2) =>
                /\ t \in DOMAIN local_provides_map
                /\ local_provides_map[t] \in Declarers(t)
                /\ resolve_provider(cap_cache, ext_queries, t).provider = local_provides_map[t])

\* the graph is built: all three packages declare the virtual capability, the index
\* holds a for it, and a package that requires it hangs under a
C15_Witness ==
    /\ pc = "seed"
    /\ Declarers(VirtualCap) = Pkgs
    /\ local_provides_map[VirtualCap] = "a"
    /\ VirtualCap \in DOMAIN cap_cache /\ cap_cache[VirtualCap] = "a"
    /\ \E c \in Pkgs : VirtualCap \in ResolvedReqs(c) /\ c \in Consumers(dep_graph, "a")

\* C17 as claimed: the binary repositories are asked at most once per capability
\* token, and a token they were asked about is in the cache whatever they answered.
C17_AtMostOneQuery ==
    \A cap \in Tokens :
        /\ ext_queries[cap] <= 1
        /\ ext_queries[cap] >= 1 => cap \in DOMAIN cap_cache
\* the plan file was loaded and its task array is empty
EmptyPlan == plan_file.written /\ plan_file.tasks = <<>>

\* C16: on a plan with an empty task array the chain executor never calls
\* single_build, no step of it changes the RPM files of the repository or its index,
\* and when the process ends of its own accord it has gone through the loop and ends
\* with status 0.
C16_EmptyPlanNoOp ==
    /\ [][EmptyPlan => UNCHANGED <<invoked, new_rpms, repo_rpms, repodata>>]_vars
    /\ [](EmptyPlan =>
            /\ invoked = <<>>
            /\ printed = {}
            /\ chain_pc \in {"start", "loop", "exited"}
            /\ (chain_pc = "exited" /\ lc_exit # <<130>>) => lc_exit = <<0>>)

\* the chain has ended with status 0 on an empty plan, the repository holding an RPM
\* that its index does not cover
C16_Witness ==
    /\ EmptyPlan
    /\ chain_pc = "exited"
    /\ lc_exit = <<0>>
    /\ tasks = <<>>
    /\ repo_rpms = {OldRpm}
    /\ repodata = {}
(***************************************************************************)
(* The planner on source trees with a directory that has no spec file or   *)
(* whose spec file rpmspec fails on.                                       *)
(***************************************************************************)
\* a directory without a spec file
NoDescriptor ==
    [has_spec |-> FALSE, names |-> {}, provides |-> {}, buildrequires |-> {}, fails |-> {}]
\* the rpmspec queries that fail on a spec file: none, one of them, or all
FailMenu == {{}, {QNames}, {QProvides}, {QBuildRequires},
             {QNames, QProvides, QBuildRequires}}
\* package b: no spec file, or a spec file that names b, may Provide the virtual
\* capability, may BuildRequire a and c, and on which some rpmspec queries may fail
FaultyDescriptors ==
    {NoDescriptor} \cup
    [has_spec : {TRUE}, names : {{"b"}}, provides : ProvMenu,
     buildrequires : SUBSET {"a", "c"}, fails : FailMenu]

\* a and c parse; each may BuildRequire the virtual capability and b, c may Provide
\* the virtual capability
InitFaults ==
    /\ forges_exists = TRUE
    /\ \E reqs_a, reqs_c \in SUBSET {VirtualCap, "b"}, provs_c \in ProvMenu,
          desc_b \in FaultyDescriptors :
         forges = [p \in Pkgs |->
                     CASE p = "a" -> PlainDescriptor("a", reqs_a)
                       [] p = "b" -> desc_b
                       [] OTHER -> [has_spec |-> TRUE, names |-> {"c"}, provides |-> provs_c,
                                    buildrequires |-> reqs_c, fails |-> {}]]
    /\ \E answer \in AnswerMenu : binary_repo = [cap \in Tokens |-> answer]
    /\ plan_file = [written |-> FALSE, tasks |-> <<>>]
    /\ PlannerStart
    /\ ChainIdle

FaultSpec == InitFaults /\ [][ResolveNext]_vars
\* the graph loop is over
GraphBuilt == pc \in {"seed", "bfs", "done"}
\* what a requirement resolves to, whoever asks first: the local index, else the
\* package the binary repositories name, else nothing
ExpectedProvider(req) ==
    IF req \in DOMAIN local_provides_map THEN local_provides_map[req]
    ELSE IF binary_repo[req] \in {NotFound, ResolverError} THEN None
    ELSE binary_repo[req]
\* the edges the requirements of the source tree call for
ExpectedEdges ==
    {e \in Pkgs \X Pkgs :
        /\ e[1] # e[2]
        /\ \E req \in ResolvedReqs(e[2]) : ExpectedProvider(req) = e[1]}
\* the requirements on which the libdnf5 query is made and raises
ErrorReqs ==
    {req \in Tokens : req \notin DOMAIN local_provides_map /\ binary_repo[req] = ResolverError}

\* C18: an exception of the libdnf5 query does not stop generate_plan: the planner
\* has not ended while the graph is built, the requirement resolves to no provider
\* and gives no edge, and once the graph loop is over dep_graph holds exactly the
\* edges of the other requirements, of every package.
C18_ResolverErrorIsNoProvider ==
    /\ pc \in {"scan", "graph", "seed", "bfs"} => planner_exit = <<>>
    /\ pc # "scan" =>
         \A req \in ErrorReqs :
             resolve_provider(cap_cache, ext_queries, req).provider = None
    /\ GraphBuilt => Edges = ExpectedEdges
    /\ pc = "done" => plan_file.written

\* the graph is built: c requires the virtual capability, on which the query raised,
\* and b, which the local index holds, and hangs under b
C18_Witness ==
    /\ pc = "seed"
    /\ VirtualCap \in ErrorReqs
    /\ ResolvedReqs("c") = {VirtualCap, "b"}
    /\ ext_queries[VirtualCap] >= 1
    /\ "c" \in Consumers(dep_graph, "b")
    /\ local_provides_map["b"] = "b"

\* the packages whose spec file some rpmspec query fails on
FailsToParse == {p \in Pkgs : HasSpec(p) /\ forges[p].fails # {}}

\* C19 as claimed: a package on whose spec file an rpmspec query fails, be it one
\* query or all, holds no token of the capability index and is the consumer of no
\* edge, while every token of the packages that parse is in the index.
C19_FailedParseContributesNothing ==
    /\ pc # "scan" =>
         /\ \A p \in FailsToParse : \A t \in DOMAIN local_provides_map :
                local_provides_map[t] # p
         /\ \A q \in Pkgs : Parses(q) => Declares(q) \subseteq DOMAIN local_provides_map
    /\ \A p \in FailsToParse : \A q \in Pkgs : p \notin Consumers(dep_graph, q)

\* the packages whose directory holds no spec file
WithoutSpec == {p \in Pkgs : ~HasSpec(p)}

\* C20: a package directory without a spec file holds no token of the capability
\* index and is the consumer of no edge, and it is a managed package: as a trigger
\* it is seeded and written to the plan at level 0.
C20_NoSpecStillTrigger ==
    \A p \in WithoutSpec :
        /\ \A t \in DOMAIN local_provides_map : local_provides_map[t] # p
        /\ \A q \in Pkgs : p \notin Consumers(dep_graph, q)
        /\ p \in managed_pkg_ids
        /\ (pc \in {"bfs", "done"} /\ p \in Range(trigger_ids)) =>
             Has(affected, p) /\ LevelOf(affected, p) = 0
        /\ (PlanWritten /\ p \in Range(trigger_ids)) =>
             p \in PlanPkgs /\ PlanLevel(p) = 0

\* the plan written for the trigger b, whose directory holds no spec file, on a tree
\* in which c requires b
C20_Witness ==
    /\ PlanWritten
    /\ WithoutSpec = {"b"}
    /\ trigger_ids = <<"b">>
    /\ "b" \in ResolvedReqs("c")
    /\ "b" \notin DOMAIN local_provides_map
    /\ plan_file.tasks = <<[package |-> "b", level |-> 0]>>
(***************************************************************************)
(* The planner on source trees whose spec files BuildRequire rpm's         *)
(* bookkeeping tokens.                                                     *)
(***************************************************************************)
\* what a package of such a tree may BuildRequire: the virtual capability, an
\* rpmlib( token, a config( token
ReservedReqMenu == SUBSET ({VirtualCap} \cup RpmlibTokens \cup ConfigTokens)
\* what package b may list under Provides: the virtual capability, a config( token
ReservedProvMenu == SUBSET ({VirtualCap} \cup ConfigTokens)

InitReserved ==
    /\ forges_exists = TRUE
    /\ \E reqs \in [Pkgs -> ReservedReqMenu], provs_b \in ReservedProvMenu :
         forges = [p \in Pkgs |->
                     [has_spec |-> TRUE, names |-> {p},
                      provides |-> IF p = "b" THEN provs_b ELSE {},
                      buildrequires |-> reqs[p], fails |-> {}]]
    /\ \E answer \in AnswerMenu : binary_repo = [cap \in Tokens |-> answer]
    /\ plan_file = [written |-> FALSE, tasks |-> <<>>]
    /\ PlannerStart
    /\ ChainIdle

ReservedSpec == InitReserved /\ [][ResolveNext]_vars

\* the BuildRequires of consumer_id that start with neither rpmlib( nor config(
PlainReqs(consumer_id) ==
    forges[consumer_id].buildrequires \ (RpmlibTokens \cup ConfigTokens)

\* C21: once the graph loop is over, dep_graph holds the edge provider -> consumer
\* exactly when the consumer is a managed package with a build requirement outside
\* the reserved prefixes whose provider is that provider, the provider is a managed
\* package, and the two differ; every key and every member of dep_graph is a managed
\* package id.
C21_EdgeExactlyWhen ==
    GraphBuilt =>
        /\ DOMAIN dep_graph \subseteq managed_pkg_ids
        /\ \A p \in DOMAIN dep_graph : dep_graph[p] \subseteq managed_pkg_ids
        /\ \A p, c \in Pkgs \cup {ExtPkg, None} :
             (c \in Consumers(dep_graph, p)) <=>
                 /\ c \in managed_pkg_ids
                 /\ p \in managed_pkg_ids
                 /\ p # c
                 /\ \E req \in PlainReqs(c) : ExpectedProvider(req) = p

\* the graph is built: the binary repositories name a for every capability, b
\* Provides a config( token that a requires, which gives no edge; a and c require
\* the virtual capability, which gives the edge a -> c and no edge a -> a
C21_Witness ==
    /\ pc = "seed"
    /\ binary_repo[VirtualCap] = "a"
    /\ \E t \in ConfigTokens :
         /\ t \in forges["a"].buildrequires
         /\ t \in DOMAIN local_provides_map /\ local_provides_map[t] = "b"
    /\ "a" \notin Consumers(dep_graph, "b")
    /\ VirtualCap \in PlainReqs("a") /\ VirtualCap \in PlainReqs("c")
    /\ VirtualCap \notin DOMAIN local_provides_map
    /\ Consumers(dep_graph, "a") = {"c"}
\* the moves of a task: the loop reaches it, single_build returns True or the
\* task fails, or the process is interrupted while the task runs
TaskMoves == {<<"Pending", "Running">>, <<"Running", "Succeeded">>,
              <<"Running", "Failed">>, <<"Running", "Interrupted">>}
\* the states of the chain: the process runs; chain() went through the whole loop
\* and returned True; the process ended in any other way
ChainActive == chain_pc \notin {"idle", "exited"}
ChainHasCompleted ==
    /\ chain_pc = "exited"
    /\ plan_file.written
    /\ lc_exit = <<0>>
    /\ idx = Len(tasks)
ChainAborted == chain_pc = "exited" /\ ~ChainHasCompleted

\* C22: a task changes state only along Pending -> Running -> {Succeeded, Failed}
\* (or is marked when the process is interrupted while it runs); single_build is
\* called for a task only when the task is Pending and every task before it has
\* Succeeded, so no task is retried and no failed task is skipped; the chain has
\* completed only with every task Succeeded; and a process that has ended takes no
\* further step.
C22_TaskAndChainStates ==
    /\ [][IF status = <<>>
          THEN \A i \in 1..Len(status') : status'[i] = "Pending"
          ELSE /\ Len(status') = Len(status)
               /\ \A i \in 1..Len(status) :
                    status'[i] = status[i] \/ <<status[i], status'[i]>> \in TaskMoves]_vars
    /\ [][\/ invoked' = invoked
          \/ /\ Len(invoked) < Len(tasks)
             /\ invoked' = Append(invoked, tasks[Len(invoked) + 1].package)
             /\ status[Len(invoked) + 1] = "Pending"
             /\ status'[Len(invoked) + 1] = "Running"
             /\ \A j \in 1..Len(invoked) : status[j] = "Succeeded"]_vars
    /\ [](ChainHasCompleted => TasksIn("Succeeded") = 1..Len(plan_file.tasks))
    /\ [][chain_pc # "exited"]_vars

\* the chain was broken at the third of three tasks after two had succeeded, and
\* the process has ended
C22_Witness ==
    /\ ChainAborted
    /\ status = <<"Succeeded", "Succeeded", "Failed">>
    /\ Len(invoked) = 3
    /\ <<"Chain broken", tasks[3].package>> \in printed
\* C23 as claimed: during seeding and traversal no package is appended to the queue
\* more than once, whatever the graph and the trigger list.
C23_EnqueuedAtMostOnce ==
    \A p \in Pkgs : enqueued[p] <= 1
\* the tasks that were running when a KeyboardInterrupt was raised in the process
Cancelled == TasksIn("Interrupted") \cup swallowed

\* C24 as claimed: after a KeyboardInterrupt raised while task k runs, single_build
\* is called for no task after k, and the RPMs and index entries of the tasks before
\* k are in the repository.
C24_CancellationIsFailure ==
    \A k \in Cancelled :
        /\ Len(invoked) <= k
        /\ \A j \in 1..(k - 1) : Committed(j)
\* the RPM files the tasks of this run have copied into the repository
RunRpms == {Rpm(i) : i \in 1..Len(tasks)} \cap repo_rpms

\* C25 as claimed: when the chain has completed or was stopped by a failing step,
\* every RPM file a task of the run copied into the repository is covered by the
\* repository index.
C25_StoppedRepoIsIndexed ==
    (chain_pc = "exited" /\ TasksIn("Interrupted") = {} /\ lc_exit # <<130>>) =>
        RunRpms \subseteq repodata
\* C26: in the written plan, every consumer of a package of the plan is in the plan,
\* at most one level above it, and every package above level 0 has a provider in
\* the plan exactly one level below it.
C26_ClosedAndStepwise ==
    PlanWritten =>
        /\ \A e \in Edges :
             (e[1] \in PlanPkgs) =>
                 /\ e[2] \in PlanPkgs
                 /\ PlanLevel(e[2]) <= PlanLevel(e[1]) + 1
        /\ \A c \in PlanPkgs :
             (PlanLevel(c) > 0) =>
                 \E p \in PlanPkgs : <<p, c>> \in Edges /\ PlanLevel(p) = PlanLevel(c) - 1

\* a plan that reaches level 2, with an edge into a trigger and a package that has
\* providers at two levels
C26_Witness ==
    /\ PlanWritten
    /\ \E c \in PlanPkgs : PlanLevel(c) = 2
    /\ \E e \in PlanEdges : PlanLevel(e[2]) = 0
    /\ \E c \in PlanPkgs : \E p, q \in PlanPkgs :
         /\ <<p, c>> \in Edges /\ <<q, c>> \in Edges
         /\ PlanLevel(p) < PlanLevel(q)
=============================================================================
